---- MODULE Spec2Model ----
(***************************************************************************)
(* A model of the get-size crate (src/src/lib.rs) and of the code its      *)
(* derive macro generates (src/get-size-derive/src/lib.rs).                *)
(*                                                                         *)
(* The object graph is a set of shared allocations (Rc / Arc), each        *)
(* holding a tuple of strong or weak handles, optionally wrapped in a      *)
(* Mutex or RwLock.  One top-level size computation is a stack machine:    *)
(* every frame is one pending call of get_size on a pointee (or on the     *)
(* root value), every action is one step of one impl of GetSize.           *)
(***************************************************************************)
EXTENDS Integers, Sequences, FiniteSets, TLC

\* ------------------------------------------------------------------ bounds
MaxNodes == 2
MaxFields == 1
MaxRoot == 2
MaxCalls == 2
MaxLen == 2
MaxCap == 2
MaxSlack == 1
MaxTrackCalls == 3
MaxDeriveFields == 2
MaxVariants == 2
MaxVal == 1
MaxSwaps == 1

\* ------------------------------------------------- std::mem::size_of values
\* size_of::<Rc<T>>() = size_of::<Arc<T>>() = size_of::<Weak<T>>() on 64 bit
PtrSize == 8
\* size_of::<Mutex<T>>() - size_of::<T>() for a T of alignment 8
MutexOverhead == 8
\* size_of::<RwLock<T>>() - size_of::<T>() for a T of alignment 8
RwLockOverhead == 16
\* size_of::<String>() = size_of::<PathBuf>() = size_of::<OsString>()
BufferStackSize == 24
\* size_of::<Vec<T>>()
VecStackSize == 24
\* size_of::<u64>()
U64StackSize == 8
\* #[get_size(size = 100)] of the helper test
SizeLiteral == 100

VARIABLES
    heap,        \* the shared allocations: node -> [alive, wrap, fields]
    rootNode,    \* 0: the root value is the tuple rootItems; n: it is &*handle of n
    rootItems,   \* the handles of the root tuple
    trackerKind, \* which impl of GetSizeTracker the caller passes
    tracker,     \* the addresses the tracker holds
    stack,       \* the pending get_size calls, innermost last
    status,      \* idle | running | returned | panicked | blocked
    result,      \* what the last top-level call returned
    prev,        \* what the top-level call before it returned (-1: none)
    calls,       \* top-level calls started
    held,        \* node -> number of guards of its lock this traversal holds
    ext,         \* node -> "free" | "other": its lock is held by another thread
    poisoned,    \* node -> its lock's poison flag
    log,         \* one entry per handle visited by the current call, in visit order
    heapResult,  \* what get_heap_size of the root value returned
    cont,        \* a container of text buffers (the container specification)
    iter,        \* the progress of its get_heap_size
    trackLog,    \* the track calls made on the tracker and what each returned
    rootCap,     \* -1: the root value is a tuple; c: it is a Vec of capacity c
    ast,         \* the type declaration the derive macro is given
    mac,         \* the macro's progress and the commands it has generated
    run,         \* the generated get_heap_size running on a value of the type
    thr,         \* thread -> a traversal running beside the other thread's
    owner,       \* node -> the thread holding its mutex (0: none)
    refd,        \* a reference or raw pointer being measured, and the outcome
    swaps        \* how often the caller has reordered the root Vec

vars == <<heap, rootNode, rootItems, trackerKind, tracker, stack, status, result,
          prev, calls, held, ext, poisoned, log, heapResult, cont, iter, trackLog,
          rootCap, ast, mac, run, thr, owner, refd, swaps>>

graphVars == <<heap, rootNode, rootItems, trackerKind, rootCap, swaps>>
lockVars == <<held, ext, poisoned>>
seqVars == <<cont, iter>>
deriveVars == <<ast, mac, run>>
parVars == <<thr, owner>>
refVars == <<refd>>

Nodes == 1..MaxNodes
Handles == [weak : BOOLEAN, to : Nodes]
Wraps == {"None", "Mutex", "RwLock"}
SetTrackers == {"BTreeSet", "HashSet"}

SeqsUpTo(S, n) == UNION {[1..k -> S] : k \in 0..n}

\* Allocation 1, 3, ... was made by Rc::new, allocation 2, 4, ... by Arc::new.
Flavor(n) == IF n % 2 = 1 THEN "Rc" ELSE "Arc"

Fields(n) == IF n = 0 THEN rootItems ELSE heap[n].fields
Wrap(n) == IF n = 0 THEN "None" ELSE heap[n].wrap

\* ------------------------------------------------------------ GetSizeTracker

\* impl GetSizeTracker for BTreeSet<*const ()>: self.insert(address)
BTreeSetTrack(set, address) == <<address \notin set, set \cup {address}>>

\* impl GetSizeTracker for HashSet<*const ()>: self.insert(address)
HashSetTrack(set, address) == <<address \notin set, set \cup {address}>>

\* impl GetSizeTracker for GetSizeNoTracker: true, nothing stored
NoTrackerTrack(set, address) == <<TRUE, set>>

\* tracker.track(address) through &mut dyn GetSizeTracker
Track(kind, set, address) ==
    CASE kind = "BTreeSet" -> BTreeSetTrack(set, address)
      [] kind = "HashSet" -> HashSetTrack(set, address)
      [] kind = "NoTracker" -> NoTrackerTrack(set, address)

\* ------------------------------------------------------------------ GetSize

\* GetSize::get_stack_size: size_of::<Self>() of a pointee (a tuple of handles,
\* bare or inside a Mutex / RwLock) or of the root tuple.
GetStackSize(n) ==
    IF n = 0 /\ rootCap >= 0 THEN VecStackSize
    ELSE PtrSize * Len(Fields(n))
         + (CASE Wrap(n) = "None" -> 0
              [] Wrap(n) = "Mutex" -> MutexOverhead
              [] Wrap(n) = "RwLock" -> RwLockOverhead)

\* What the loop of the value a handle sits in adds beside the handle's heap
\* size: impl_size_set adds get_size(v), the handle's stack size included; the
\* tuple impl adds get_heap_size(v) alone.
ElemStackSize(n) == IF n = 0 /\ rootCap >= 0 THEN PtrSize ELSE 0

\* impl_size_set for a Vec of handles, after its loop:
\* total += (self.capacity() - self.len()) * T::get_stack_size()
VecGetHeapSize(total) == total + (rootCap - Len(rootItems)) * PtrSize

\* Fault model: a get_size that leaves the stack size out
GetSizeHeapOnly(stackSize, heapSize) == heapSize

\* GetSize::get_size: Self::get_stack_size() + get_heap_size(self, tracker)
GetSize(stackSize, heapSize) == stackSize + heapSize

\* Fault model: an Rc impl that measures its pointee whatever track returned
RcGetHeapSizeUntracked(fresh) == "enter"

\* impl GetSize for Rc<T>: if tracker.track(ptr) { get_size(&**self) } else { 0 }
RcGetHeapSize(fresh) == IF fresh THEN "enter" ELSE "zero"

\* Fault model: an Arc impl that measures its pointee whatever track returned
ArcGetHeapSizeUntracked(fresh) == "enter"

\* impl GetSize for Arc<T>
ArcGetHeapSize(fresh) == IF fresh THEN "enter" ELSE "zero"

\* Fault model: a Weak impl that takes upgrade() to succeed
RcWeakGetHeapSizeNoUpgrade(fresh, alive) == IF fresh THEN "enter" ELSE "zero"

\* impl GetSize for std::rc::Weak<T>:
\* if track(ptr) { upgrade().map(|rc| get_size(&*rc)).unwrap_or(0) } else { 0 }
RcWeakGetHeapSize(fresh, alive) ==
    IF fresh THEN (IF alive THEN "enter" ELSE "zero") ELSE "zero"

\* Fault model: a Weak impl that tracks the address and then measures nothing
ArcWeakGetHeapSizeZero(fresh, alive) == "zero"

\* impl GetSize for std::sync::Weak<T>
ArcWeakGetHeapSize(fresh, alive) ==
    IF fresh THEN (IF alive THEN "enter" ELSE "zero") ELSE "zero"

\* The impl a handle's static type selects.
HandleGetHeapSize(h, fresh) ==
    CASE ~h.weak /\ Flavor(h.to) = "Rc" -> RcGetHeapSize(fresh)
      [] ~h.weak /\ Flavor(h.to) = "Arc" -> ArcGetHeapSize(fresh)
      [] h.weak /\ Flavor(h.to) = "Rc" -> RcWeakGetHeapSize(fresh, heap[h.to].alive)
      [] h.weak /\ Flavor(h.to) = "Arc" -> ArcWeakGetHeapSize(fresh, heap[h.to].alive)

\* self.lock().unwrap() of impl GetSize for Mutex<T>: the outcomes.  {} is
\* waiting for the other thread.  Locking a mutex this thread holds never
\* returns: std leaves open whether it deadlocks or panics.
MutexLockUnwrap(n) ==
    IF ext[n] = "other" THEN {}
    ELSE IF held[n] > 0 THEN {"deadlock", "panic"}
    ELSE IF poisoned[n] THEN {"panic"}
    ELSE {"acquired"}

\* self.read().unwrap() of impl GetSize for RwLock<T>.  A second read guard on
\* the same thread is granted or panics (std: "might panic").
RwLockReadUnwrap(n) ==
    IF ext[n] = "other" THEN {}
    ELSE IF poisoned[n] THEN {"panic"}
    ELSE IF held[n] > 0 THEN {"acquired", "panic"}
    ELSE {"acquired"}

LockUnwrap(n) ==
    IF Wrap(n) = "Mutex" THEN MutexLockUnwrap(n) ELSE RwLockReadUnwrap(n)

\* The frame of a get_size call on pointee n (0: the root tuple) that the
\* handle visit log[slot] started.  idx 0: before the guard is taken.
NewFrame(n, slot) ==
    [node |-> n, idx |-> IF Wrap(n) = "None" THEN 1 ELSE 0, total |-> 0,
     guard |-> FALSE, slot |-> slot]

\* Fault model: the tracker of the call before is used again
KeptTracker == tracker

\* let tracker = StandardTracker::default(): each top-level call's own tracker
FreshTracker == {}

\* Fault model: the guard is leaked
KeepGuard(f) == held

\* The guard is a temporary of the body's tail expression: it is dropped when
\* get_heap_size of the Mutex / RwLock returns.
DropGuard(f) == IF f.guard THEN [held EXCEPT ![f.node] = @ - 1] ELSE held

Top == stack[Len(stack)]
SetTop(f) == [stack EXCEPT ![Len(stack)] = f]

\* ------------------------------------------------------------------ actions

\* The caller starts a top-level computation on the root value.
TopLevelCall ==
    /\ status \in {"idle", "returned"}
    /\ calls < MaxCalls
    /\ calls' = calls + 1
    /\ prev' = IF status = "returned" THEN result ELSE -1
    /\ result' = 0
    /\ tracker' = FreshTracker
    /\ stack' = <<NewFrame(rootNode, 0)>>
    /\ log' = <<>>
    /\ status' = "running"
    /\ heapResult' = 0
    /\ UNCHANGED <<graphVars, lockVars, seqVars, trackLog,
                   deriveVars, parVars, refVars>>

\* A panic unwinds the whole call: every guard is dropped, and a MutexGuard
\* dropped while panicking poisons its mutex (a read guard poisons nothing).
Unwind ==
    /\ status' = "panicked"
    /\ stack' = <<>>
    /\ held' = [n \in Nodes |-> 0]
    /\ poisoned' = [n \in Nodes |->
                      poisoned[n] \/ (held[n] > 0 /\ Wrap(n) = "Mutex")]
    /\ UNCHANGED <<graphVars, tracker, result, prev, calls, ext, log, heapResult,
                   seqVars, trackLog,
                   deriveVars, parVars, refVars>>

\* Mutex<T> / RwLock<T>::get_heap_size takes the guard.
Acquire ==
    /\ status = "running"
    /\ Top.idx = 0
    /\ \E o \in LockUnwrap(Top.node) :
         CASE o = "acquired" ->
                /\ held' = [held EXCEPT ![Top.node] = @ + 1]
                /\ stack' = SetTop([Top EXCEPT !.idx = 1, !.guard = TRUE])
                /\ UNCHANGED <<graphVars, tracker, status, result, prev, calls,
                               ext, poisoned, log, heapResult, seqVars, trackLog,
                   deriveVars, parVars, refVars>>
           [] o = "panic" -> Unwind
           [] o = "deadlock" ->
                /\ status' = "blocked"
                /\ UNCHANGED <<graphVars, tracker, stack, result, prev, calls,
                               lockVars, log, heapResult, seqVars, trackLog,
                   deriveVars, parVars, refVars>>

\* The tuple impl reaches its next handle: total += get_heap_size(handle).
Visit ==
    /\ status = "running"
    /\ Top.idx >= 1
    /\ Top.idx <= Len(Fields(Top.node))
    /\ LET h == Fields(Top.node)[Top.idx]
           tr == Track(trackerKind, tracker, h.to)
           entry == [to |-> h.to, weak |-> h.weak, fresh |-> tr[1],
                     parent |-> Top.slot, entered |-> FALSE, contrib |-> 0,
                     heapSize |-> 0]
       IN /\ tracker' = tr[2]
          /\ IF HandleGetHeapSize(h, tr[1]) = "enter"
             THEN /\ log' = Append(log, [entry EXCEPT !.entered = TRUE,
                                                         !.contrib = -1])
                  /\ stack' = Append(stack, NewFrame(h.to, Len(log) + 1))
             ELSE /\ log' = Append(log, entry)
                  /\ stack' = SetTop([Top EXCEPT !.idx = @ + 1,
                                                  !.total = @ + ElemStackSize(Top.node)])
    /\ UNCHANGED <<graphVars, status, result, prev, calls, lockVars, heapResult,
                   seqVars, trackLog,
                   deriveVars, parVars, refVars>>

\* A get_size call returns: the guard (a temporary of the tail expression) is
\* dropped, the caller adds the size to its total.
Return ==
    /\ status = "running"
    /\ Top.idx = Len(Fields(Top.node)) + 1
    /\ LET f == Top
           heapSize == IF f.node = 0 /\ rootCap >= 0
                       THEN VecGetHeapSize(f.total) ELSE f.total
           size == GetSize(GetStackSize(f.node), heapSize)
       IN /\ held' = DropGuard(f)
          /\ IF Len(stack) = 1
             THEN /\ result' = size
                  /\ heapResult' = heapSize
                  /\ status' = "returned"
                  /\ stack' = <<>>
                  /\ log' = log
             ELSE LET p == stack[Len(stack) - 1]
                  IN /\ stack' = [SubSeq(stack, 1, Len(stack) - 1)
                                    EXCEPT ![Len(stack) - 1] =
                                      [p EXCEPT !.idx = @ + 1,
                                                !.total = @ + size + ElemStackSize(p.node)]]
                     /\ log' = [log EXCEPT ![f.slot].contrib = size,
                                            ![f.slot].heapSize = f.total]
                     /\ UNCHANGED <<result, heapResult, status>>
    /\ UNCHANGED <<graphVars, tracker, prev, calls, ext, poisoned, seqVars, trackLog,
                   deriveVars, parVars, refVars>>

\* Another thread takes a free lock (a mutex, or an RwLock for writing).
OtherAcquire(n) ==
    /\ heap[n].alive
    /\ Wrap(n) # "None"
    /\ ext[n] = "free"
    /\ held[n] = 0
    /\ ext' = [ext EXCEPT ![n] = "other"]
    /\ UNCHANGED <<graphVars, tracker, stack, status, result, prev, calls, held,
                   poisoned, log, heapResult, seqVars, trackLog,
                   deriveVars, parVars, refVars>>

\* The other thread drops its guard, normally or while panicking.
OtherRelease(n, panicking) ==
    /\ ext[n] = "other"
    /\ ext' = [ext EXCEPT ![n] = "free"]
    /\ poisoned' = [poisoned EXCEPT ![n] = @ \/ panicking]
    /\ UNCHANGED <<graphVars, tracker, stack, status, result, prev, calls, held, log,
                   heapResult, seqVars, trackLog,
                   deriveVars, parVars, refVars>>

\* The caller reorders the Vec between two top-level calls (Vec::swap): the
\* order self.iter() yields the elements in changes, nothing else does.
Permute ==
    /\ status = "returned"
    /\ rootCap >= 0
    /\ swaps < MaxSwaps
    /\ \E i, j \in DOMAIN rootItems :
          /\ i < j
          /\ rootItems' = [rootItems EXCEPT ![i] = rootItems[j], ![j] = rootItems[i]]
    /\ swaps' = swaps + 1
    /\ UNCHANGED <<heap, rootNode, trackerKind, rootCap, tracker, stack, status,
                   result, prev, calls, lockVars, log, heapResult, seqVars, trackLog,
                   deriveVars, parVars, refVars>>

\* ----------------------------------------------------- idle parts of the state

\* What the derive variables hold while no type is derived.
NoAst == [shape |-> "None", named |-> FALSE, params |-> {}, attrs |-> <<>>,
          fields |-> <<>>, variants |-> <<>>, active |-> 0]
NoMac == [state |-> "input", trivial |-> FALSE, ignored |-> {}, bounds |-> {},
          cmds |-> <<>>, arms |-> <<>>]
NoRun == [state |-> "idle", pc |-> 0, prog |-> <<>>, total |-> 0, read |-> {},
          contribs |-> <<>>, out |-> 0]

NoRef == [kind |-> "None", len |-> 0, state |-> "idle", out |-> 0, trackerBefore |-> {}]

NoDerive ==
    /\ ast = NoAst
    /\ mac = NoMac
    /\ run = NoRun
    /\ refd = NoRef

Threads == {1, 2}

\* What the thread variables hold while one thread measures alone.
NoThreads ==
    /\ thr = [t \in Threads |-> [root |-> 0, status |-> "idle", stack |-> <<>>,
                                 tracker |-> {}, result |-> 0]]
    /\ owner = [n \in Nodes |-> 0]

\* --------------------------------------------------------------- containers

\* What the container variables hold while the graph is traversed.
NoContainer == [kind |-> "None", elemKind |-> "None", elems |-> <<>>, cap |-> 0]
NoIter == [i |-> 0, total |-> 0, heaps |-> <<>>, done |-> FALSE, out |-> 0]

BufferKinds == {"String", "PathBuf", "OsString"}
ContainerKinds == {"Vec", "VecDeque", "BinaryHeap", "HashSet", "BTreeSet", "LinkedList"}

\* An owned buffer: its allocated capacity and its used length.
Buffers == {b \in [cap : 0..MaxCap, len : 0..MaxCap] : b.len <= b.cap}

\* impl GetSize for String: self.capacity()
StringGetHeapSize(b) == b.cap

\* impl GetSize for std::ffi::OsString: self.len()
OsStringGetHeapSize(b) == b.len

\* impl GetSize for std::path::PathBuf: self.capacity()
PathBufGetHeapSize(b) == b.cap

BufferGetHeapSize(kind, b) ==
    CASE kind = "String" -> StringGetHeapSize(b)
      [] kind = "OsString" -> OsStringGetHeapSize(b)
      [] kind = "PathBuf" -> PathBufGetHeapSize(b)

\* Fault model: impl_size_set without the spare capacity
ImplSizeSetNoSlack(c, total) == total

\* impl_size_set, after its loop:
\* total += (self.capacity() - self.len()) * T::get_stack_size()
ImplSizeSet(c, total) == total + (c.cap - Len(c.elems)) * BufferStackSize

\* impl_size_set_no_capacity, after its loop: total
ImplSizeSetNoCapacity(c, total) == total

\* The macro each container type is instantiated with.
ContainerFinish(c, total) ==
    CASE c.kind = "BTreeSet" -> ImplSizeSetNoCapacity(c, total)
      [] c.kind = "BinaryHeap" -> ImplSizeSet(c, total)
      [] c.kind = "HashSet" -> ImplSizeSet(c, total)
      [] c.kind = "LinkedList" -> ImplSizeSetNoCapacity(c, total)
      [] c.kind = "VecDeque" -> ImplSizeSet(c, total)
      [] c.kind = "Vec" -> ImplSizeSet(c, total)

\* for v in self.iter() { total += GetSize::get_size(v, tracker); }
IterNext ==
    /\ ~iter.done
    /\ iter.i >= 1
    /\ iter.i <= Len(cont.elems)
    /\ LET h == BufferGetHeapSize(cont.elemKind, cont.elems[iter.i])
       IN iter' = [iter EXCEPT !.i = @ + 1,
                               !.total = @ + GetSize(BufferStackSize, h),
                               !.heaps = Append(@, h)]
    /\ UNCHANGED <<graphVars, tracker, stack, status, result, prev, calls, lockVars,
                   log, heapResult, cont, trackLog,
                   deriveVars, parVars, refVars>>

\* The loop is over: the container's get_heap_size returns.
IterFinish ==
    /\ ~iter.done
    /\ iter.i = Len(cont.elems) + 1
    /\ iter' = [iter EXCEPT !.done = TRUE, !.out = ContainerFinish(cont, iter.total)]
    /\ UNCHANGED <<graphVars, tracker, stack, status, result, prev, calls, lockVars,
                   log, heapResult, cont, trackLog,
                   deriveVars, parVars, refVars>>

\* ------------------------------------------------------------- tracker calls

Addresses == 0..MaxNodes

\* The caller calls tracker.track(address).
TrackCall(address) ==
    /\ Len(trackLog) < MaxTrackCalls
    /\ LET tr == Track(trackerKind, tracker, address)
       IN /\ tracker' = tr[2]
          /\ trackLog' = Append(trackLog, [address |-> address, ret |-> tr[1]])
    /\ UNCHANGED <<graphVars, stack, status, result, prev, calls, lockVars, log,
                   heapResult, seqVars, deriveVars, parVars, refVars>>

\* ------------------------------------------------------------------- graphs

\* A dropped pointee has no payload; a strong handle keeps its target alive.
ValidNode(nd) == ~nd.alive => (nd.wrap = "None" /\ nd.fields = <<>>)

StrongTargets(items) == {items[i].to : i \in {j \in DOMAIN items : ~items[j].weak}}

ValidGraph(hp, rn, ri) ==
    /\ \A n \in Nodes : ValidNode(hp[n])
    /\ \A n \in Nodes : \A m \in StrongTargets(hp[n].fields) : hp[m].alive
    /\ \A m \in StrongTargets(ri) : hp[m].alive
    /\ rn # 0 => (hp[rn].alive /\ ri = <<>>)
    /\ rn = 0 => ri # <<>>

NodeValues == [alive : BOOLEAN, wrap : Wraps, fields : SeqsUpTo(Handles, MaxFields)]

Init ==
    /\ heap \in [Nodes -> {nd \in NodeValues : ValidNode(nd)}]
    /\ rootNode \in 0..MaxNodes
    /\ rootItems \in SeqsUpTo(Handles, MaxRoot)
    /\ ValidGraph(heap, rootNode, rootItems)
    /\ trackerKind \in SetTrackers
    /\ tracker = {}
    /\ stack = <<>>
    /\ status = "idle"
    /\ result = 0
    /\ prev = -1
    /\ calls = 0
    /\ held = [n \in Nodes |-> 0]
    /\ ext = [n \in Nodes |-> "free"]
    /\ poisoned = [n \in Nodes |-> FALSE]
    /\ log = <<>>
    /\ heapResult = 0
    /\ cont = NoContainer
    /\ iter = NoIter
    /\ trackLog = <<>>
    /\ rootCap = -1
    /\ swaps = 0
    /\ NoDerive
    /\ NoThreads

\* No graph: the container and the tracker specifications traverse none.
NoGraph ==
    /\ heap = [n \in Nodes |-> [alive |-> FALSE, wrap |-> "None", fields |-> <<>>]]
    /\ rootNode = 0
    /\ rootItems = <<>>
    /\ stack = <<>>
    /\ status = "idle"
    /\ result = 0
    /\ prev = -1
    /\ calls = 0
    /\ held = [n \in Nodes |-> 0]
    /\ ext = [n \in Nodes |-> "free"]
    /\ poisoned = [n \in Nodes |-> FALSE]
    /\ log = <<>>
    /\ heapResult = 0
    /\ rootCap = -1
    /\ swaps = 0
    /\ NoThreads

\* A container of buffers: std keeps capacity >= len; a container without an
\* exposed capacity has none to speak of.
InitSeq ==
    /\ NoGraph
    /\ trackerKind = "BTreeSet"
    /\ tracker = {}
    /\ trackLog = <<>>
    /\ \E k \in ContainerKinds, ek \in BufferKinds, es \in SeqsUpTo(Buffers, MaxLen),
          sl \in 0..MaxSlack :
          /\ k \in {"BTreeSet", "LinkedList"} => sl = 0
          /\ cont = [kind |-> k, elemKind |-> ek, elems |-> es, cap |-> Len(es) + sl]
    /\ iter = [i |-> 1, total |-> 0, heaps |-> <<>>, done |-> FALSE, out |-> 0]
    /\ NoDerive

NextSeq == IterNext \/ IterFinish

SpecSeq == InitSeq /\ [][NextSeq]_vars

\* ------------------------------------------------------------- boxed slices

\* impl<T> GetSize for &T {}: the default get_heap_size, 0
RefGetHeapSize == 0

\* impl<T> GetSize for &T {}: the default get_stack_size, size_of::<&T>()
RefGetStackSize == PtrSize

\* impl<T> GetSize for Box<[T]>: for item in self.iter() { total +=
\* item.get_size(tracker) }.  item is a &T and the impl puts no GetSize bound
\* on T, so the method call resolves by auto-ref to <&T as GetSize>::get_size.
BoxSliceNext ==
    /\ cont.kind = "BoxSlice"
    /\ ~iter.done
    /\ iter.i >= 1
    /\ iter.i <= Len(cont.elems)
    /\ iter' = [iter EXCEPT !.i = @ + 1,
                            !.total = @ + GetSize(RefGetStackSize, RefGetHeapSize),
                            !.heaps = Append(@, RefGetHeapSize)]
    /\ UNCHANGED <<graphVars, tracker, stack, status, result, prev, calls, lockVars,
                   log, heapResult, cont, trackLog,
                   deriveVars, parVars, refVars>>

\* impl<T> GetSize for Box<[T]>: total
BoxSliceFinish ==
    /\ cont.kind = "BoxSlice"
    /\ ~iter.done
    /\ iter.i = Len(cont.elems) + 1
    /\ iter' = [iter EXCEPT !.done = TRUE, !.out = iter.total]
    /\ UNCHANGED <<graphVars, tracker, stack, status, result, prev, calls, lockVars,
                   log, heapResult, cont, trackLog,
                   deriveVars, parVars, refVars>>

\* A Box<[T]> of buffers: a boxed slice has no spare capacity.
InitBox ==
    /\ NoGraph
    /\ trackerKind = "BTreeSet"
    /\ tracker = {}
    /\ trackLog = <<>>
    /\ \E ek \in BufferKinds, es \in SeqsUpTo(Buffers, MaxLen) :
          cont = [kind |-> "BoxSlice", elemKind |-> ek, elems |-> es, cap |-> Len(es)]
    /\ iter = [i |-> 1, total |-> 0, heaps |-> <<>>, done |-> FALSE, out |-> 0]
    /\ NoDerive

NextBox == BoxSliceNext \/ BoxSliceFinish

SpecBox == InitBox /\ [][NextBox]_vars

\* ------------------------------------------------------------- derive macro

libVars == <<graphVars, stack, status, result, prev, calls, lockVars, log,
             heapResult, seqVars, trackLog>>

\* What #[get_size(..)] on a field can hold: nothing, one of the three keys
\* of StructFieldAttribute, or a key it does not have.
AttrKinds == {"none", "ignore", "size", "size_fn", "unknown"}

\* The value a field holds in the measured instance: a String of capacity v,
\* or an Rc<u64> to the allocation at address v.
FieldValues == [ty : {"String", "Rc"}, v : 1..MaxVal]

FieldDecls == [attr : AttrKinds, val : FieldValues]

\* The nested metas a type-level #[get_size(..)] can hold: ignore(A), a bare
\* key that is not ignore (other), a key that is not ignore with a value
\* (other = 1).
TypeAttrItems ==
    {[key |-> "ignore", form |-> "list", arg |-> "A"],
     [key |-> "other", form |-> "path", arg |-> ""],
     [key |-> "other", form |-> "value", arg |-> ""]}

ParamNames == {"A"}

VariantKinds == {"Unit", "Unnamed", "Named"}

\* The attributes tried on the fields of an enum's variants.
VariantAttrKinds == {"none", "ignore", "unknown"}

VariantFieldDecls == [attr : VariantAttrKinds, val : FieldValues]

Variants ==
    {v \in [kind : VariantKinds, fields : SeqsUpTo(VariantFieldDecls, MaxDeriveFields)] :
        (v.kind = "Unit") = (v.fields = <<>>)}

\* The fields of the measured value: the record's, or the active variant's.
ValueFields ==
    IF ast.shape = "Enum" THEN ast.variants[ast.active].fields ELSE ast.fields

\* extract_ignored_generics: a nested meta that is not ignore is skipped, and
\* parse_nested_meta then wants a comma or the end, so a skipped key with a
\* value is a parse error that unwrap() turns into a panic.
ExtractIgnoredGenerics(item) ==
    IF item.key # "ignore"
    THEN [ok |-> item.form = "path", names |-> {}]
    ELSE [ok |-> TRUE, names |-> {item.arg}]

\* extract_ignored_generics_list
ExtractIgnoredGenericsList(attrs) ==
    [ok |-> \A i \in DOMAIN attrs : ExtractIgnoredGenerics(attrs[i]).ok,
     names |-> UNION {ExtractIgnoredGenerics(attrs[i]).names : i \in DOMAIN attrs}]

\* add_trait_bounds: the parameters that get the bound T: GetSize
AddTraitBounds(params, ignored) == {q \in params : q \notin ignored}

\* StructFieldAttribute::from_attributes(&field.attrs): an error for a key the
\* struct does not have.
StructFieldAttributeFromAttributes(attr) == attr # "unknown"

\* The struct branch's loop over data_struct.fields from field i on, with
\* unidentified_fields_count = count (the generated index is count, here
\* the 1-based position count + 1).
RECURSIVE StructCmds(_, _, _, _, _)
StructCmds(fields, named, i, count, cmds) ==
    IF i > Len(fields) THEN [ok |-> TRUE, cmds |-> cmds]
    ELSE LET attr == fields[i].attr
         IN IF ~StructFieldAttributeFromAttributes(attr)
            THEN [ok |-> FALSE, cmds |-> <<>>]
            ELSE IF attr = "size"
            THEN StructCmds(fields, named, i + 1, count,
                            Append(cmds, [op |-> "size", field |-> 0]))
            ELSE IF attr = "size_fn"
            THEN IF named
                 THEN StructCmds(fields, named, i + 1, count,
                                 Append(cmds, [op |-> "size_fn", field |-> i]))
                 ELSE [ok |-> FALSE, cmds |-> <<>>]
            ELSE IF attr = "ignore"
            THEN StructCmds(fields, named, i + 1, count, cmds)
            ELSE IF named
            THEN StructCmds(fields, named, i + 1, count,
                            Append(cmds, [op |-> "heap", field |-> i]))
            ELSE StructCmds(fields, named, i + 1, count + 1,
                            Append(cmds, [op |-> "heap", field |-> count + 1]))

\* Fault model: an enum branch that honours ignore on a variant's field
EnumArmWithIgnore(variant) ==
    SelectSeq([i \in DOMAIN variant.fields |-> [op |-> "heap", field |-> i]],
              LAMBDA c : variant.fields[c.field].attr # "ignore")

\* The enum branch, one variant: every bound field (v0, v1, .. or its name)
\* gets total += get_heap_size_with_tracker(field, tracker); a unit variant is
\* (0, tracker).  The fields' attributes are not read.
EnumArm(variant) ==
    [i \in DOMAIN variant.fields |-> [op |-> "heap", field |-> i]]

\* derive_get_size: the whole expansion of #[derive(GetSize)].
DeriveGetSize ==
    /\ ast.shape # "None"
    /\ mac.state = "input"
    /\ LET ig == ExtractIgnoredGenericsList(ast.attrs)
           bounds == AddTraitBounds(ast.params, ig.names)
           sc == StructCmds(ast.fields, ast.named, 1, 0, <<>>)
           failed == [mac EXCEPT !.state = "failed"]
       IN mac' =
            IF ~ig.ok THEN failed
            ELSE IF ast.shape = "Enum"
            THEN IF ast.variants = <<>>
                 THEN [mac EXCEPT !.state = "generated", !.trivial = TRUE,
                                  !.ignored = ig.names]
                 ELSE [mac EXCEPT !.state = "generated", !.ignored = ig.names,
                                  !.bounds = bounds,
                                  !.arms = [k \in DOMAIN ast.variants |->
                                              EnumArm(ast.variants[k])]]
            ELSE IF ast.fields = <<>>
                 THEN [mac EXCEPT !.state = "generated", !.trivial = TRUE,
                                  !.ignored = ig.names]
                 ELSE IF sc.ok
                      THEN [mac EXCEPT !.state = "generated", !.ignored = ig.names,
                                       !.bounds = bounds, !.cmds = sc.cmds]
                      ELSE failed
    /\ UNCHANGED <<libVars, tracker, ast, run, parVars, refVars>>

\* fn get_size_helper<C>(_value: &C) -> usize { 50 }
GetSizeHelper(val) == 50

\* get_heap_size of a field's value with the threaded tracker: that of String,
\* or that of Rc<u64> (the pointee's get_size is size_of::<u64>() + 0).
FieldGetHeapSize(val, set) ==
    IF val.ty = "String"
    THEN <<StringGetHeapSize([cap |-> val.v, len |-> val.v]), set>>
    ELSE LET tr == Track(trackerKind, set, val.v)
         IN <<IF RcGetHeapSize(tr[1]) = "enter" THEN GetSize(U64StackSize, 0) ELSE 0,
              tr[2]>>

\* The generated get_heap_size: a fresh tracker, then the tracker-taking entry.
\* A trivial impl (impl GetSize for Name {}) has the default get_heap_size.
RunTopLevel ==
    /\ mac.state = "generated"
    /\ run.state = "idle"
    /\ ast.shape = "Enum" => ast.active >= 1
    /\ tracker' = FreshTracker
    /\ run' = IF mac.trivial
              THEN [run EXCEPT !.state = "done", !.out = 0]
              ELSE [run EXCEPT !.state = "running", !.pc = 1,
                               !.prog = IF ast.shape = "Enum"
                                        THEN mac.arms[ast.active] ELSE mac.cmds]
    /\ UNCHANGED <<libVars, ast, mac, parVars, refVars>>

\* One generated command of get_heap_size_with_tracker.
RunCmd ==
    /\ run.state = "running"
    /\ run.pc <= Len(run.prog)
    /\ LET c == run.prog[run.pc]
           val == ValueFields[c.field].val
           hs == FieldGetHeapSize(val, tracker)
           add == CASE c.op = "size" -> SizeLiteral
                    [] c.op = "size_fn" -> GetSizeHelper(val)
                    [] c.op = "heap" -> hs[1]
       IN /\ run' = [run EXCEPT !.pc = @ + 1, !.total = @ + add,
                                !.read = IF c.op = "size" THEN @ ELSE @ \cup {c.field},
                                !.contribs = Append(@, add)]
          /\ tracker' = IF c.op = "heap" THEN hs[2] ELSE tracker
    /\ UNCHANGED <<libVars, ast, mac, parVars, refVars>>

\* (total, tracker): the generated entry returns.
RunFinish ==
    /\ run.state = "running"
    /\ run.pc = Len(run.prog) + 1
    /\ run' = [run EXCEPT !.state = "done", !.out = run.total]
    /\ UNCHANGED <<libVars, tracker, ast, mac, parVars, refVars>>

\* The declarations the macro can be given.  Rust rejects a type parameter no
\* field uses, so a type without fields has none.
StructAsts ==
    {[shape |-> "Struct", named |-> nm, params |-> ps, attrs |-> at, fields |-> fs,
      variants |-> <<>>, active |-> 0] :
        nm \in BOOLEAN, ps \in SUBSET ParamNames,
        at \in SeqsUpTo(TypeAttrItems, 1), fs \in SeqsUpTo(FieldDecls, MaxDeriveFields)}

EnumAsts ==
    {[shape |-> "Enum", named |-> FALSE, params |-> ps, attrs |-> at, fields |-> <<>>,
      variants |-> vs, active |-> a] :
        ps \in SUBSET ParamNames, at \in SeqsUpTo(TypeAttrItems, 1),
        vs \in SeqsUpTo(Variants, MaxVariants), a \in 0..MaxVariants}

HasFields(a) ==
    \/ a.fields # <<>>
    \/ \E k \in DOMAIN a.variants : a.variants[k].fields # <<>>

ValidAst(a) ==
    /\ a.params # {} => HasFields(a)
    /\ a.shape = "Enum" =>
          (IF a.variants = <<>> THEN a.active = 0 ELSE a.active \in DOMAIN a.variants)

InitDerive ==
    /\ NoGraph
    /\ trackerKind = "BTreeSet"
    /\ tracker = {}
    /\ trackLog = <<>>
    /\ cont = NoContainer
    /\ iter = NoIter
    /\ ast \in {a \in StructAsts \cup EnumAsts : ValidAst(a)}
    /\ mac = NoMac
    /\ run = NoRun
    /\ refd = NoRef

NextDerive == DeriveGetSize \/ RunTopLevel \/ RunCmd \/ RunFinish

SpecDerive == InitDerive /\ [][NextDerive]_vars

\* ------------------------------------------------ references, raw pointers

RefKinds == {"&[T]", "&T", "&mut T", "*const T", "*mut T", "&str", "&CStr",
             "&OsStr", "&Path"}

\* impl<T> GetSize for &[T] where T: GetSize {}
SliceRefGetHeapSize == 0

\* impl<T> GetSize for &mut T {}
MutRefGetHeapSize == 0

\* impl<T> GetSize for *const T {}
ConstPtrGetHeapSize == 0

\* impl<T> GetSize for *mut T {}
MutPtrGetHeapSize == 0

\* impl GetSize for &str {}
StrRefGetHeapSize == 0

\* impl GetSize for &std::ffi::CStr: self.to_bytes_with_nul().len()
CStrRefGetHeapSize(len) == len + 1

\* impl GetSize for &std::ffi::OsStr: self.len()
OsStrRefGetHeapSize(len) == len

\* impl GetSize for &std::path::Path {}
PathRefGetHeapSize == 0

\* get_heap_size of a reference or raw pointer whose referent holds len bytes.
ReferenceGetHeapSize(kind, len) ==
    CASE kind = "&[T]" -> SliceRefGetHeapSize
      [] kind = "&T" -> RefGetHeapSize
      [] kind = "&mut T" -> MutRefGetHeapSize
      [] kind = "*const T" -> ConstPtrGetHeapSize
      [] kind = "*mut T" -> MutPtrGetHeapSize
      [] kind = "&str" -> StrRefGetHeapSize
      [] kind = "&CStr" -> CStrRefGetHeapSize(len)
      [] kind = "&OsStr" -> OsStrRefGetHeapSize(len)
      [] kind = "&Path" -> PathRefGetHeapSize

\* The caller measures the reference; none of the impls uses its tracker.
MeasureReference ==
    /\ refd.state = "new"
    /\ refd' = [refd EXCEPT !.state = "measured",
                            !.out = ReferenceGetHeapSize(refd.kind, refd.len),
                            !.trackerBefore = tracker]
    /\ UNCHANGED <<libVars, tracker, deriveVars, parVars>>

\* A reference to len bytes, and a tracker that has seen any set of addresses.
InitRef ==
    /\ NoGraph
    /\ trackerKind \in SetTrackers
    /\ tracker \in SUBSET Addresses
    /\ trackLog = <<>>
    /\ cont = NoContainer
    /\ iter = NoIter
    /\ ast = NoAst
    /\ mac = NoMac
    /\ run = NoRun
    /\ \E k \in RefKinds, n \in 0..MaxCap :
          refd = [kind |-> k, len |-> n, state |-> "new", out |-> 0, trackerBefore |-> {}]

NextRef == MeasureReference

SpecRef == InitRef /\ [][NextRef]_vars

\* ------------------------------------------------------- two traversals

\* The value thread t measures is an Arc handle to thr[t].root (frame node 0).
\* Rc is not Send: every allocation two threads can both reach is an Arc.
ParFields(t, n) ==
    IF n = 0 THEN <<[weak |-> FALSE, to |-> thr[t].root]>> ELSE heap[n].fields

\* GetSize::get_stack_size of the measured Arc handle or of a pointee
ParGetStackSize(t, n) ==
    IF n = 0 THEN PtrSize
    ELSE PtrSize * Len(heap[n].fields)
         + (IF heap[n].wrap = "Mutex" THEN MutexOverhead ELSE 0)

ParTop(t) == thr[t].stack[Len(thr[t].stack)]

\* impl GetSize for Arc<T> / std::sync::Weak<T>, by the handle's type
ParHandleGetHeapSize(h, fresh) ==
    IF h.weak THEN ArcWeakGetHeapSize(fresh, heap[h.to].alive)
    ELSE ArcGetHeapSize(fresh)

\* self.lock().unwrap() by thread t: {} is waiting for the thread that holds
\* the mutex; locking a mutex the thread holds itself deadlocks or panics.
ParMutexLockUnwrap(t, n) ==
    IF owner[n] = 0 THEN {"acquired"}
    ELSE IF owner[n] = t THEN {"deadlock", "panic"}
    ELSE {}

\* Fault model: the guard is leaked
ParKeepGuard(f) == owner

\* The guard is dropped when get_heap_size of the Mutex returns.
ParDropGuard(f) == IF f.guard THEN [owner EXCEPT ![f.node] = 0] ELSE owner

\* Thread t starts its top-level computation with its own tracker.
ParTopLevelCall(t) ==
    /\ thr[t].status = "idle"
    /\ thr' = [thr EXCEPT ![t].status = "running", ![t].tracker = FreshTracker,
                          ![t].stack = <<NewFrame(0, 0)>>]
    /\ UNCHANGED <<libVars, tracker, deriveVars, owner, refVars>>

\* Mutex<T>::get_heap_size in thread t takes the guard.
ParAcquire(t) ==
    /\ thr[t].status = "running"
    /\ ParTop(t).idx = 0
    /\ \E o \in ParMutexLockUnwrap(t, ParTop(t).node) :
         CASE o = "acquired" ->
                /\ owner' = [owner EXCEPT ![ParTop(t).node] = t]
                /\ thr' = [thr EXCEPT ![t].stack[Len(thr[t].stack)] =
                                [ParTop(t) EXCEPT !.idx = 1, !.guard = TRUE]]
           [] o = "panic" ->
                /\ owner' = [n \in Nodes |-> IF owner[n] = t THEN 0 ELSE owner[n]]
                /\ thr' = [thr EXCEPT ![t].status = "panicked", ![t].stack = <<>>]
           [] o = "deadlock" ->
                /\ owner' = owner
                /\ thr' = [thr EXCEPT ![t].status = "blocked"]
    /\ UNCHANGED <<libVars, tracker, deriveVars, refVars>>

\* Thread t reaches the next handle of the value it is in.
ParVisit(t) ==
    /\ thr[t].status = "running"
    /\ ParTop(t).idx >= 1
    /\ ParTop(t).idx <= Len(ParFields(t, ParTop(t).node))
    /\ LET f == ParTop(t)
           h == ParFields(t, f.node)[f.idx]
           tr == Track(trackerKind, thr[t].tracker, h.to)
           k == Len(thr[t].stack)
       IN thr' = IF ParHandleGetHeapSize(h, tr[1]) = "enter"
                 THEN [thr EXCEPT ![t].tracker = tr[2],
                                  ![t].stack = Append(@, NewFrame(h.to, 0))]
                 ELSE [thr EXCEPT ![t].tracker = tr[2],
                                  ![t].stack[k] = [f EXCEPT !.idx = @ + 1]]
    /\ UNCHANGED <<libVars, tracker, deriveVars, owner, refVars>>

\* A get_size call of thread t returns: its guard is dropped, the caller adds
\* the size to its total.
ParReturn(t) ==
    /\ thr[t].status = "running"
    /\ ParTop(t).idx = Len(ParFields(t, ParTop(t).node)) + 1
    /\ LET f == ParTop(t)
           k == Len(thr[t].stack)
           size == GetSize(ParGetStackSize(t, f.node), f.total)
       IN /\ owner' = ParDropGuard(f)
          /\ thr' = IF k = 1
                    THEN [thr EXCEPT ![t].status = "returned", ![t].result = size,
                                     ![t].stack = <<>>]
                    ELSE [thr EXCEPT ![t].stack =
                            [SubSeq(@, 1, k - 1) EXCEPT ![k - 1] =
                                [@ EXCEPT !.idx = @ + 1, !.total = @ + size]]]
    /\ UNCHANGED <<libVars, tracker, deriveVars, refVars>>

ParWraps == {"None", "Mutex"}

\* Two threads, each about to measure an Arc handle into one graph whose
\* pointees are bare or inside a Mutex.
InitPar ==
    /\ heap \in [Nodes -> {nd \in NodeValues : ValidNode(nd) /\ nd.wrap \in ParWraps}]
    /\ \A n \in Nodes : \A m \in StrongTargets(heap[n].fields) : heap[m].alive
    /\ rootNode = 0
    /\ rootItems = <<>>
    /\ rootCap = -1
    /\ swaps = 0
    /\ trackerKind = "BTreeSet"
    /\ tracker = {}
    /\ stack = <<>>
    /\ status = "idle"
    /\ result = 0
    /\ prev = -1
    /\ calls = 0
    /\ held = [n \in Nodes |-> 0]
    /\ ext = [n \in Nodes |-> "free"]
    /\ poisoned = [n \in Nodes |-> FALSE]
    /\ log = <<>>
    /\ heapResult = 0
    /\ cont = NoContainer
    /\ iter = NoIter
    /\ trackLog = <<>>
    /\ NoDerive
    /\ \E r \in [Threads -> {n \in Nodes : heap[n].alive}] :
          thr = [t \in Threads |-> [root |-> r[t], status |-> "idle", stack |-> <<>>,
                                    tracker |-> {}, result |-> 0]]
    /\ owner = [n \in Nodes |-> 0]

NextPar ==
    \E t \in Threads :
        ParTopLevelCall(t) \/ ParAcquire(t) \/ ParVisit(t) \/ ParReturn(t)

SpecPar == InitPar /\ [][NextPar]_vars

\* A Vec of handles into a graph of shared allocations, with spare capacity.
InitVec ==
    /\ heap \in [Nodes -> {nd \in NodeValues : ValidNode(nd)}]
    /\ rootNode = 0
    /\ rootItems \in SeqsUpTo(Handles, MaxRoot)
    /\ ValidGraph(heap, rootNode, rootItems)
    /\ rootCap \in Len(rootItems)..(Len(rootItems) + MaxSlack)
    /\ swaps = 0
    /\ trackerKind \in SetTrackers
    /\ tracker = {}
    /\ stack = <<>>
    /\ status = "idle"
    /\ result = 0
    /\ prev = -1
    /\ calls = 0
    /\ held = [n \in Nodes |-> 0]
    /\ ext = [n \in Nodes |-> "free"]
    /\ poisoned = [n \in Nodes |-> FALSE]
    /\ log = <<>>
    /\ heapResult = 0
    /\ cont = NoContainer
    /\ iter = NoIter
    /\ trackLog = <<>>
    /\ NoDerive
    /\ NoThreads

\* A tracker of any of the three kinds, before its first call.
InitTrack ==
    /\ NoGraph
    /\ trackerKind \in SetTrackers \cup {"NoTracker"}
    /\ tracker = {}
    /\ trackLog = <<>>
    /\ cont = NoContainer
    /\ iter = NoIter
    /\ NoDerive

NextTrack == \E a \in Addresses : TrackCall(a)

SpecTrack == InitTrack /\ [][NextTrack]_vars

Step == TopLevelCall \/ Acquire \/ Visit \/ Return

\* One thread: the traversal alone.
NextSingle == Step

SpecSingle == Init /\ [][NextSingle]_vars

\* The traversal beside another thread that takes and drops the locks.
Next ==
    \/ Step
    \/ \E n \in Nodes : OtherAcquire(n)
    \/ \E n \in Nodes, p \in BOOLEAN : OtherRelease(n, p)

Spec == Init /\ [][Next]_vars

\* The traversal of a Vec the caller reorders between two calls.
NextVec == Step \/ Permute

SpecVec == InitVec /\ [][NextVec]_vars

\* ------------------------------------------------------------------- claims

RECURSIVE SumContrib(_)
SumContrib(S) ==
    IF S = {} THEN 0
    ELSE LET i == CHOOSE x \in S : TRUE IN log[i].contrib + SumContrib(S \ {i})

RECURSIVE SumStack(_)
SumStack(S) ==
    IF S = {} THEN 0
    ELSE LET n == CHOOSE x \in S : TRUE IN GetStackSize(n) + SumStack(S \ {n})

\* The allocations a traversal of the root value can reach: the targets of its
\* handles, and of the handles inside every live pointee reached.
Targets(n) == {Fields(n)[k].to : k \in DOMAIN Fields(n)}

RECURSIVE Closure(_)
Closure(S) ==
    LET T == S \cup UNION {Targets(n) : n \in S}
    IN IF T = S THEN S ELSE Closure(T)

Reached == Closure(Targets(rootNode))

\* The handle visit went on to compute the size of its pointee (contrib is -1
\* until that get_size call has returned).
Entered(e) == e.entered
Children(i) == {k \in DOMAIN log : log[k].parent = i}
EnteredVisits(n) == {i \in DOMAIN log : log[i].to = n /\ Entered(log[i])}

\* How often the pointee of allocation n is part of the result: once per handle
\* that entered it, and once more when it is the root value itself.
TimesCounted(n) == Cardinality(EnteredVisits(n)) + (IF rootNode = n THEN 1 ELSE 0)

\* The handle half of C1: a handle is fresh exactly when no earlier visit of
\* this call went to its allocation; the pointee is measured exactly for a
\* fresh handle to a live allocation; a handle that is not fresh, or whose
\* target is gone, adds 0; the first handle to a live allocation adds the
\* pointee's stack size plus the heap size of the pointee (the contributions of
\* the handles visited inside it).
HandleContributions ==
    \A i \in DOMAIN log :
        LET e == log[i]
        IN /\ e.fresh = (\A j \in 1..(i - 1) : log[j].to # e.to)
           /\ Entered(e) = (e.fresh /\ heap[e.to].alive)
           /\ ~Entered(e) => e.contrib = 0
           /\ (Entered(e) /\ e.contrib >= 0) =>
                 e.contrib = GetStackSize(e.to) + SumContrib(Children(i))

FrameWork(f) == Len(Fields(f.node)) - f.idx + 2

RECURSIVE StackWork(_)
StackWork(k) == IF k = 0 THEN 0 ELSE FrameWork(stack[k]) + StackWork(k - 1)

Measure == (MaxFields + 3) * Cardinality(Nodes \ tracker) + StackWork(Len(stack))

Decreases == (status = "running" /\ status' = "running") => Measure' < Measure

\* A running computation in a single thread can always take its next step.
NeverStuck == status = "running" => ENABLED (Acquire \/ Visit \/ Return)

\* The root value is the Mutex inside a shared allocation that its own fields
\* lead back to.
SelfLockedRoot ==
    /\ rootNode # 0
    /\ Wrap(rootNode) = "Mutex"
    /\ rootNode \in Reached

\* C2 (as stated): from an empty set-based tracker a single-threaded
\* computation over any finite graph terminates: every step lowers the
\* variant, a next step is always possible, and it never waits for a lock it
\* holds itself.
C2_AlwaysTerminates ==
    /\ [](NeverStuck /\ status # "blocked")
    /\ [][Decreases]_vars

\* C2 (amended): the same, unless the root value is itself a Mutex inside a
\* shared allocation reachable from its own fields; that computation locks the
\* mutex it holds and does not return.
C2_TerminatesUnlessRootLocked ==
    /\ [](/\ NeverStuck
          /\ ~SelfLockedRoot => status # "blocked"
          /\ SelfLockedRoot => status # "returned")
    /\ [][Decreases]_vars

\* A computation over a cycle through a locked allocation returned.
C2_Witness ==
    /\ status = "returned"
    /\ \E n \in tracker : Wrap(n) # "None" /\ n \in Closure(Targets(n))

\* C3: every get_size the traversal evaluated, for a pointee behind a handle
\* and for the root value, is the value's stack size plus the heap size that
\* the same call computed.
C3_TotalIsStackPlusHeap ==
    /\ \A i \in DOMAIN log :
         (Entered(log[i]) /\ log[i].contrib >= 0) =>
            log[i].contrib = GetStackSize(log[i].to) + log[i].heapSize
    /\ status = "returned" => result = GetStackSize(rootNode) + heapResult

\* A root with a non-empty heap part, holding a pointee with one, was measured.
C3_Witness ==
    /\ status = "returned"
    /\ heapResult > 0
    /\ \E i \in DOMAIN log : log[i].heapSize > 0 /\ GetStackSize(log[i].to) > 0

\* C5: a second top-level computation over the unchanged value returns what
\* the first returned.
C5_SameTotalTwice == (status = "returned" /\ prev >= 0) => result = prev

\* The second computation returned, over a graph with a shared allocation.
C5_Witness ==
    /\ status = "returned"
    /\ calls = 2
    /\ prev > 0
    /\ \E i, j \in DOMAIN log : i < j /\ log[i].to = log[j].to /\ log[i].contrib > 0

\* C6: a weak handle whose target is gone adds 0, tracked before or not, its
\* freed pointee is never read and the visit raises nothing; a live weak handle
\* that is fresh adds the target's total size and leaves its address tracked.
C6_WeakContribution ==
    /\ \A i \in DOMAIN log :
         LET e == log[i]
         IN /\ (e.weak /\ ~heap[e.to].alive) => (~Entered(e) /\ e.contrib = 0)
            /\ (e.weak /\ heap[e.to].alive /\ e.fresh) =>
                  /\ e.to \in tracker
                  /\ Entered(e)
                  /\ e.contrib >= 0 => e.contrib = GetStackSize(e.to) + e.heapSize
    /\ \A k \in DOMAIN stack : stack[k].node # 0 => heap[stack[k].node].alive
    /\ (log # <<>> /\ log[Len(log)].weak /\ ~heap[log[Len(log)].to].alive) =>
          status \in {"running", "returned"}

\* One computation met a dangling weak handle first untracked and then
\* tracked, and a fresh weak handle to a live allocation.
C6_Witness ==
    /\ status = "returned"
    /\ \E i, j, k \in DOMAIN log :
         /\ log[i].weak /\ log[j].weak /\ log[k].weak
         /\ ~heap[log[i].to].alive /\ log[i].fresh
         /\ ~heap[log[j].to].alive /\ ~log[j].fresh
         /\ heap[log[k].to].alive /\ log[k].fresh /\ log[k].contrib > 0

GuardFrames(n) == {k \in DOMAIN stack : stack[k].node = n /\ stack[k].guard}

\* C7: a locked pointee is read only under a guard the traversal holds and no
\* other thread holds; the traversal holds exactly the guards of its pending
\* frames, one per mutex; after it returned or panicked it holds none.
C7_GuardScoped ==
    /\ \A k \in DOMAIN stack :
         (Wrap(stack[k].node) # "None" /\ stack[k].idx >= 1) =>
            (stack[k].guard /\ ext[stack[k].node] = "free")
    /\ \A n \in Nodes : held[n] = Cardinality(GuardFrames(n))
    /\ \A n \in Nodes : Wrap(n) = "Mutex" => held[n] <= 1
    /\ status \in {"idle", "returned", "panicked"} => \A n \in Nodes : held[n] = 0

\* A computation that took the guard of a Mutex and of an RwLock returned.
C7_Witness ==
    /\ status = "returned"
    /\ \E i, j \in DOMAIN log :
         /\ Wrap(log[i].to) = "Mutex" /\ Entered(log[i])
         /\ Wrap(log[j].to) = "RwLock" /\ Entered(log[j])

\* C8 (as stated): whatever the state of the locks, a computation returns or
\* waits; it never ends in a runtime failure.
C8_NoRuntimeFailure == status # "panicked"

\* C4 (as stated): for each of the three trackers, track(address) returns
\* true for the first call with an address and false for every later one.
C4_TrueOnlyFirstTime ==
    \A i \in DOMAIN trackLog :
        trackLog[i].ret =
            (\A j \in 1..(i - 1) : trackLog[j].address # trackLog[i].address)

CapacityExposing == {"Vec", "VecDeque", "BinaryHeap", "HashSet"}

RECURSIVE SumElements(_)
SumElements(k) ==
    IF k = 0 THEN 0
    ELSE BufferStackSize + BufferGetHeapSize(cont.elemKind, cont.elems[k])
           + SumElements(k - 1)

\* C9: the heap size of Vec, VecDeque, BinaryHeap and HashSet is the sum of
\* stack + heap size over the elements plus (capacity - length) element stack
\* sizes, with capacity >= length; that of BTreeSet and LinkedList is the sum
\* alone.
C9_ContainerHeapSize ==
    iter.done =>
        /\ cont.cap >= Len(cont.elems)
        /\ iter.out = SumElements(Len(cont.elems))
                        + (IF cont.kind \in CapacityExposing
                           THEN (cont.cap - Len(cont.elems)) * BufferStackSize
                           ELSE 0)

\* A HashSet of two buffers with heap parts and spare capacity was measured.
C9_Witness ==
    /\ iter.done
    /\ cont.kind = "HashSet"
    /\ Len(cont.elems) = 2
    /\ cont.cap > Len(cont.elems)
    /\ \A k \in DOMAIN iter.heaps : iter.heaps[k] > 0

\* C10 (as stated): the heap size of a String, PathBuf or OsString is its
\* allocated capacity.
C10_HeapIsCapacity ==
    \A k \in DOMAIN iter.heaps : iter.heaps[k] = cont.elems[k].cap

\* C11 (as stated): the heap size of a boxed slice Box<[T]> is the sum over its
\* elements of T's stack size plus the element's heap size.
C11_BoxSliceSumsElements ==
    (iter.done /\ cont.kind = "BoxSlice") =>
        iter.out = SumElements(Len(cont.elems))

\* What a record's fields contribute when each follows its configuration, from
\* field i on, with the tracker threaded from field to field.
RECURSIVE ConfiguredSum(_, _, _)
ConfiguredSum(fields, i, set) ==
    IF i > Len(fields) THEN 0
    ELSE LET f == fields[i]
             hs == FieldGetHeapSize(f.val, set)
         IN CASE f.attr = "ignore" -> ConfiguredSum(fields, i + 1, set)
              [] f.attr = "size" -> SizeLiteral + ConfiguredSum(fields, i + 1, set)
              [] f.attr = "size_fn" ->
                    GetSizeHelper(f.val) + ConfiguredSum(fields, i + 1, set)
              [] OTHER -> hs[1] + ConfiguredSum(fields, i + 1, hs[2])

\* C12 (as stated): in a derived record every field contributes by its
\* configuration (ignore: 0 and never inspected; size = N: N; size_fn = f:
\* f(field); otherwise its heap size with the tracker) and the record's heap
\* size is the sum.
C12_FieldsContributeAsConfigured ==
    (ast.shape = "Struct" /\ run.state = "done") =>
        /\ run.out = ConfiguredSum(ast.fields, 1, {})
        /\ \A k \in DOMAIN ast.fields : ast.fields[k].attr = "ignore" => k \notin run.read

\* The heap sizes of all the fields from field i on, whatever their
\* attributes, with one tracker threaded through: <<sum, tracker>>.
RECURSIVE HeapSum(_, _, _)
HeapSum(fields, i, set) ==
    IF i > Len(fields) THEN <<0, set>>
    ELSE LET hs == FieldGetHeapSize(fields[i].val, set)
             rest == HeapSum(fields, i + 1, hs[2])
         IN <<hs[1] + rest[1], rest[2]>>

TypeAttrsParse == \A k \in DOMAIN ast.attrs : ast.attrs[k].form # "value"

\* C13: a derived enum's heap size is the sum of the heap sizes of all the
\* fields of the active variant, with one tracker passed from field to field; a
\* unit variant gives 0; attributes on a variant's fields change nothing (not
\* the sum, not whether generation succeeds); an enum without variants gets the
\* trivial implementation, whose heap size is 0.
C13_EnumSumsActiveVariant ==
    ast.shape = "Enum" =>
        /\ mac.state = "failed" => ~TypeAttrsParse
        /\ mac.state = "generated" => (mac.trivial = (ast.variants = <<>>))
        /\ run.state = "done" =>
              /\ run.out = HeapSum(ValueFields, 1, {})[1]
              /\ tracker = HeapSum(ValueFields, 1, {})[2]
              /\ ast.variants[ast.active].kind = "Unit" => run.out = 0

\* An enum value whose active variant holds two Rc handles to one allocation,
\* the first marked ignore, was measured: the first counts it, the second adds 0.
C13_Witness ==
    /\ ast.shape = "Enum"
    /\ run.state = "done"
    /\ Len(ValueFields) = 2
    /\ \A k \in 1..2 : ValueFields[k].val.ty = "Rc"
    /\ ValueFields[1].attr = "ignore"
    /\ run.contribs = <<U64StackSize, 0>>

\* C14 (as stated): in a derived record with positional fields the field at
\* position k is addressed by index k, also after overridden fields, and an
\* override on a positional field does not make generation fail.
C14_PositionalByIndex ==
    (/\ ast.shape = "Struct"
     /\ ~ast.named
     /\ mac.state # "input"
     /\ TypeAttrsParse
     /\ \A k \in DOMAIN ast.fields : ast.fields[k].attr # "unknown") =>
        /\ mac.state = "generated"
        /\ {mac.cmds[j].field : j \in {q \in DOMAIN mac.cmds : mac.cmds[q].op = "heap"}}
             = {k \in DOMAIN ast.fields : ast.fields[k].attr = "none"}

\* C15 (as stated): a type-level ignore(P) naming an identifier that is not a
\* generic parameter of the type makes code generation fail.
C15_UnknownExemptionFails ==
    (/\ mac.state # "input"
     /\ \E k \in DOMAIN ast.attrs :
           ast.attrs[k].key = "ignore" /\ ast.attrs[k].arg \notin ast.params) =>
        mac.state = "failed"

\* C16 (as stated): an unknown key in a get_size annotation, on the type or on
\* a field, makes code generation fail.
C16_UnknownKeyFails ==
    (/\ mac.state # "input"
     /\ \/ \E k \in DOMAIN ast.attrs : ast.attrs[k].key = "other"
        \/ \E k \in DOMAIN ast.fields : ast.fields[k].attr = "unknown"
        \/ \E v \in DOMAIN ast.variants : \E k \in DOMAIN ast.variants[v].fields :
              ast.variants[v].fields[k].attr = "unknown") =>
        mac.state = "failed"

\* C17 (as stated): every reference or raw-pointer type with an impl (&T,
\* &mut T, &[T], &str, &Path, &CStr, &OsStr, *const T, *mut T) has heap size 0
\* and leaves the tracker unchanged.
C17_ReferencesHaveNoHeap ==
    refd.state = "measured" => (refd.out = 0 /\ tracker = refd.trackerBefore)

\* Thread t is inside lock() of a mutex the other thread holds.
ParWaiting(t) ==
    /\ thr[t].status = "running"
    /\ ParTop(t).idx = 0
    /\ owner[ParTop(t).node] \notin {0, t}

ParTargets(n) ==
    {heap[n].fields[i].to : i \in {j \in DOMAIN heap[n].fields :
                                      heap[heap[n].fields[j].to].alive}}

RECURSIVE ParClosure(_)
ParClosure(S) ==
    LET more == S \cup UNION {ParTargets(n) : n \in S}
    IN IF more = S THEN S ELSE ParClosure(more)

\* The allocations reachable from n by one handle or more.
ParReach(n) == ParClosure(ParTargets(n))

\* Two different Mutex nodes that reference each other, directly or not.
MutexCycle ==
    \E a, b \in Nodes :
        /\ a # b
        /\ heap[a].wrap = "Mutex" /\ heap[b].wrap = "Mutex"
        /\ b \in ParReach(a) /\ a \in ParReach(b)

SameRoot == thr[1].root = thr[2].root

ParCanStep(t) ==
    \/ thr[t].status = "idle"
    \/ thr[t].status = "running" /\ ~ParWaiting(t)

C19_OrderIndependent ==
    (status = "returned" /\ rootCap >= 0 /\ prev >= 0) => result = prev

\* The Vec was measured, reordered and measured again; in the new order the
\* second element's allocation is reached inside the first element's, so the
\* second element now adds no heap size, while in the old order it came first
\* and was counted through the element itself.
C19_Witness ==
    /\ status = "returned"
    /\ rootCap > Len(rootItems)
    /\ calls = 2
    /\ swaps = 1
    /\ Len(rootItems) = 2
    /\ Len(log) >= 3
    /\ log[1].to = rootItems[1].to
    /\ log[1].weak = rootItems[1].weak
    /\ log[1].entered
    /\ log[Len(log)].parent = 0
    /\ log[Len(log)].to = rootItems[2].to
    /\ ~log[Len(log)].fresh
    /\ ~rootItems[2].weak
    /\ rootItems[1].to # rootItems[2].to

====
